---- MODULE Spec2Model ----
(***************************************************************************)
(* Session-token lifecycle (internal/repository/token_repo.go,             *)
(* internal/service/auth_service.go, internal/domain/contact.go) and the   *)
(* sliding-window rate limiter (internal/api/middleware/ratelimit.go) of   *)
(* wave-server.                                                            *)
(*                                                                         *)
(* Every SQL statement is one atomic step; a request handler is a process  *)
(* that moves through its statements, so handlers of different requests    *)
(* interleave between statements, as goroutines do on the shared pool.     *)
(***************************************************************************)
EXTENDS Integers, Sequences, FiniteSets, TLC

\* ---------------------------------------------------------------- bounds
NumSubjects == 2
MaxSecrets == 2
NumProcs == 2
MaxTime == 2
MaxTTL == 2

NumKeys == 2
MaxLimit == 3
MaxWindow == 2
MaxInstant == 2

MaxFailures == 3
MaxLimiters == 3

Subjects == 1..NumSubjects
Keys == 1..NumKeys
Secrets == 1..MaxSecrets
Procs == 1..NumProcs
Times == 0..MaxTime

\* ------------------------------------------------------------- variables
VARIABLES
  now,         \* the wall clock read by time.Now()
  TokenExpiry, \* config.Auth.TokenExpiry, fixed at start-up
  tokens,      \* the tokens table: token_hash -> row
  generated,   \* how many secrets crypto/rand has produced so far
  dbUp,        \* whether a statement sent to the pool succeeds
  pc,          \* per request: the statement it is about to run
  loc,         \* per request: the handler's local variables
  lastRet,     \* the call that returned in the step just taken, if any
  issued,      \* history: secret -> the call that issued it
  revoked,     \* history: secret -> the latest call that revoked it
  limit,       \* RateLimiter.limit
  window,      \* RateLimiter.window
  requests,    \* RateLimiter.requests: client IP -> admitted timestamps
  rlpc,        \* per request in the limiter: before or after time.Now()
  rlloc,       \* per request in the limiter: ip and now
  lastLimit,   \* the limiter decision taken in the step just taken, if any
  admitted,    \* history: client IP -> timestamp -> how many requests that read
               \* this timestamp have been admitted
  authz,       \* the request whose Authorization header is being read
  reaper,      \* the goroutine of ScheduleTokenCleanup and its ticker
  shutdown,    \* whether the context of main has been cancelled
  cleanups     \* how many RateLimiter.cleanup goroutines are running

tokVars == <<now, TokenExpiry, tokens, generated, dbUp, pc, loc, lastRet,
             issued, revoked>>

rlVars == <<limit, window, requests, rlpc, rlloc, lastLimit, admitted>>

hdrVars == <<authz>>

reaperVars == <<reaper, shutdown, cleanups>>

vars == <<tokVars, rlVars, hdrVars, reaperVars>>

\* ------------------------------------------------------- pure functions
\* security.HashToken: SHA-256 in hex. Distinct secrets have distinct
\* digests, and a digest is never itself a secret.
HashToken(token) == <<"sha256", token>>

\* security.GenerateRandomToken(32): 256 fresh random bits, so a value that
\* was produced before is not produced again.
GenerateRandomToken == generated + 1

\* errors.NewUnauthenticatedError / NewNotFoundError / NewInternalError
NewUnauthenticatedError(msg) == [Code |-> "UNAUTHENTICATED", Message |-> msg, Status |-> 401]
NewNotFoundError(resource) == [Code |-> "NOT_FOUND", Message |-> resource, Status |-> 404]
NewInternalError(msg) == [Code |-> "INTERNAL", Message |-> msg, Status |-> 500]

NewConflictError(msg) == [Code |-> "CONFLICT", Message |-> msg, Status |-> 409]
\* a nil error
Nil == [Code |-> "OK", Message |-> "", Status |-> 200]

\* domain.NewToken: CreatedAt and LastUsed are its own clock read
NewToken(tokenID, userID, tokenHash, expiresAt) ==
  [TokenID |-> tokenID, UserID |-> userID, TokenHash |-> tokenHash,
   CreatedAt |-> now, ExpiresAt |-> expiresAt, LastUsed |-> now]

\* the zero value of domain.Token, held where the code holds a nil *Token
NoToken ==
  [TokenID |-> 0, UserID |-> 0, TokenHash |-> HashToken(0),
   CreatedAt |-> 0, ExpiresAt |-> 0, LastUsed |-> 0]

\* IsExpired with !time.Now().Before(t.ExpiresAt): the instant of expiry counts as expired
IsExpiredAtExpiry(t) == now >= t.ExpiresAt

\* the fields of the *Token that ValidateToken reads after the lookup
Fetched(token) ==
  [TokenID |-> token.TokenID, UserID |-> token.UserID, ExpiresAt |-> token.ExpiresAt]

NilToken == Fetched(NoToken)

\* domain.Token.IsExpired: time.Now().After(t.ExpiresAt)
IsExpired(t) == now > t.ExpiresAt

\* ------------------------------------------------ statements of the store
\* SELECT ... WHERE token_hash = $1
GetByTokenHash(tokenHash) ==
  IF ~dbUp THEN [err |-> NewInternalError("Failed to get token"), token |-> NoToken]
  ELSE IF tokenHash \in DOMAIN tokens
       THEN [err |-> Nil, token |-> tokens[tokenHash]]
       ELSE [err |-> NewNotFoundError("Token"), token |-> NoToken]

\* Create as an upsert: a row with the same hash is replaced
CreateOverwrites(token) ==
  IF ~dbUp THEN [err |-> NewInternalError("Failed to create token"), table |-> tokens]
  ELSE [err |-> Nil,
        table |-> [h \in DOMAIN tokens \cup {token.TokenHash} |->
                     IF h = token.TokenHash THEN token ELSE tokens[h]]]

\* INSERT INTO tokens: token_hash is unique
Create(token) ==
  IF ~dbUp THEN [err |-> NewInternalError("Failed to create token"), table |-> tokens]
  ELSE IF token.TokenHash \in DOMAIN tokens
       THEN [err |-> NewConflictError("Token hash already exists"), table |-> tokens]
       ELSE [err |-> Nil,
             table |-> [h \in DOMAIN tokens \cup {token.TokenHash} |->
                          IF h = token.TokenHash THEN token ELSE tokens[h]]]

\* Delete with a statement that matches no row and reports no error
DeleteMatchesNothing(tokenHash) == [err |-> Nil, table |-> tokens]

\* Delete that removes every row of the user the hash belongs to
DeleteOfSameUser(tokenHash) ==
  IF ~dbUp THEN [err |-> NewInternalError("Failed to delete token"), table |-> tokens]
  ELSE IF tokenHash \in DOMAIN tokens
       THEN [err |-> Nil,
             table |-> [h \in {k \in DOMAIN tokens :
                                 tokens[k].UserID # tokens[tokenHash].UserID} |-> tokens[h]]]
       ELSE [err |-> NewNotFoundError("Token"), table |-> tokens]

\* DELETE FROM tokens WHERE token_hash = $1
Delete(tokenHash) ==
  IF ~dbUp THEN [err |-> NewInternalError("Failed to delete token"), table |-> tokens]
  ELSE IF tokenHash \in DOMAIN tokens
       THEN [err |-> Nil, table |-> [h \in DOMAIN tokens \ {tokenHash} |-> tokens[h]]]
       ELSE [err |-> NewNotFoundError("Token"), table |-> tokens]

\* UPDATE tokens SET last_used = now WHERE token_id = $2
UpdateLastUsed(tokenID) ==
  IF ~dbUp THEN [err |-> NewInternalError("Failed to update token"), table |-> tokens]
  ELSE [err |-> Nil,
        table |-> [h \in DOMAIN tokens |->
                     IF tokens[h].TokenID = tokenID
                     THEN [tokens[h] EXCEPT !.LastUsed = now] ELSE tokens[h]]]

\* DeleteUserTokens without its WHERE clause
DeleteUserTokensNoWhere(userID) ==
  IF ~dbUp THEN [err |-> NewInternalError("Failed to delete tokens"), table |-> tokens, count |-> 0]
  ELSE [err |-> Nil, table |-> [h \in {} |-> NoToken], count |-> Cardinality(DOMAIN tokens)]

\* DELETE FROM tokens WHERE user_id = $1
DeleteUserTokens(userID) ==
  IF ~dbUp THEN [err |-> NewInternalError("Failed to delete tokens"), table |-> tokens, count |-> 0]
  ELSE LET gone == {h \in DOMAIN tokens : tokens[h].UserID = userID}
       IN [err |-> Nil, table |-> [h \in DOMAIN tokens \ gone |-> tokens[h]],
           count |-> Cardinality(gone)]

\* CleanupExpired with WHERE expires_at <= now
CleanupExpiredAtExpiry ==
  IF ~dbUp THEN [err |-> NewInternalError("Failed to cleanup tokens"), table |-> tokens, count |-> 0]
  ELSE LET gone == {h \in DOMAIN tokens : tokens[h].ExpiresAt <= now}
       IN [err |-> Nil, table |-> [h \in DOMAIN tokens \ gone |-> tokens[h]],
           count |-> Cardinality(gone)]

\* DELETE FROM tokens WHERE expires_at < now
CleanupExpired ==
  IF ~dbUp THEN [err |-> NewInternalError("Failed to cleanup tokens"), table |-> tokens, count |-> 0]
  ELSE LET gone == {h \in DOMAIN tokens : tokens[h].ExpiresAt < now}
       IN [err |-> Nil, table |-> [h \in DOMAIN tokens \ gone |-> tokens[h]],
           count |-> Cardinality(gone)]

\* --------------------------------------------------------------- requests
\* the locals of a request that is not running
Idle == [op |-> "none", arg |-> 0, userID |-> 0, token |-> NilToken,
         tokenStr |-> 0, expiresAt |-> 0]

NoRet == [op |-> "none", arg |-> 0, val |-> 0, err |-> Nil]

\* history of a secret no call has returned yet
NotIssued == [subject |-> 0, from |-> 0, expiresAt |-> 0]

\* the locals of a request that is not in the limiter, and no decision
NoRequest == [ip |-> 0, now |-> 0]
NoTimes == [t \in 0..MaxInstant |-> 0]
NoDecision == [ip |-> 0, admit |-> FALSE]

\* a request that has not arrived: no endpoint, no header, no token
NoHeader == [endpoint |-> "none", header |-> <<>>, token |-> <<>>, stage |-> "none"]

\* ScheduleTokenCleanup(ctx) has returned: the goroutine waits in its
\* select, the ticker runs and has delivered no tick yet
Started(ctx) ==
  [pc |-> "select", ctx |-> ctx, tick |-> FALSE, stopped |-> FALSE, failures |-> 0]

\* the handler of request p returns val, err
Return(p, op, arg, val, err) ==
  /\ pc' = [pc EXCEPT ![p] = "idle"]
  /\ loc' = [loc EXCEPT ![p] = Idle]
  /\ lastRet' = [op |-> op, arg |-> arg, val |-> val, err |-> err]

\* no request is reading its header; the Reaper as NewHandler starts it, and
\* the cleanup goroutines of the two limiters that SetupMiddleware builds
InitQuiet ==
  /\ authz = NoHeader
  /\ reaper = Started("Background")
  /\ shutdown = FALSE
  /\ cleanups = 2

\* middleware.NewRateLimiter(limit, window, logger), idle
InitLimiter(l, w) ==
  /\ limit = l
  /\ window = w
  /\ requests = [k \in {} |-> <<>>]
  /\ rlpc = [p \in Procs |-> "idle"]
  /\ rlloc = [p \in Procs |-> NoRequest]
  /\ lastLimit = NoDecision
  /\ admitted = [k \in Keys |-> NoTimes]

Init ==
  /\ InitLimiter(MaxLimit, MaxWindow)
  /\ now = 0
  /\ TokenExpiry \in 1..MaxTTL
  /\ tokens = [h \in {} |-> NoToken]
  /\ generated = 0
  /\ dbUp = TRUE
  /\ pc = [p \in Procs |-> "idle"]
  /\ loc = [p \in Procs |-> Idle]
  /\ lastRet = NoRet
  /\ issued = [x \in Secrets |-> NotIssued]
  /\ revoked = [x \in Secrets |-> "none"]
  /\ InitQuiet

\* a secret some call has returned
Issued(x) == issued[x].subject # 0

\* TokenRepository.CreateForUser up to the evaluation of
\* time.Now().Add(expiryDuration): the secret and its expiry are in locals
CreateForUserBegin(p, op, arg, userID) ==
  /\ generated < MaxSecrets
  /\ generated' = generated + 1
  /\ pc' = [pc EXCEPT ![p] = "create_insert"]
  /\ loc' = [loc EXCEPT ![p] = [op |-> op, arg |-> arg, userID |-> userID,
                                token |-> NilToken,
                                tokenStr |-> GenerateRandomToken,
                                expiresAt |-> now + TokenExpiry]]
  /\ lastRet' = NoRet

\* AuthService.Login: the user is found, then CreateForUser starts
AuthServiceLogin(p, username) ==
  /\ UNCHANGED <<rlVars, hdrVars, reaperVars>>
  /\ IF dbUp
     THEN CreateForUserBegin(p, "login", username, username)
     ELSE /\ Return(p, "login", username, 0, NewUnauthenticatedError("Invalid username"))
          /\ UNCHANGED generated
  /\ UNCHANGED <<now, TokenExpiry, tokens, dbUp, issued, revoked>>

\* Login called by a request that is at the service
Login(p, username) ==
  /\ pc[p] = "idle"
  /\ AuthServiceLogin(p, username)

\* TokenRepository.CreateForUser from domain.NewToken on: the row is built,
\* inserted, and the secret returned to Login or RefreshToken
CreateForUser(p) ==
  /\ UNCHANGED <<rlVars, hdrVars, reaperVars>>
  /\ pc[p] = "create_insert"
  /\ LET l == loc[p]
         token == NewToken(l.tokenStr, l.userID, HashToken(l.tokenStr), l.expiresAt)
         r == Create(token)
     IN /\ tokens' = r.table
        /\ IF r.err.Code = "OK"
           THEN /\ Return(p, l.op, l.arg, l.tokenStr, Nil)
                /\ issued' = [issued EXCEPT ![l.tokenStr] =
                                [subject |-> IF l.op = "refresh" THEN issued[l.arg].subject
                                                                 ELSE l.arg,
                                 from |-> IF l.op = "refresh" THEN l.arg ELSE 0,
                                 expiresAt |-> l.expiresAt]]
                /\ revoked' = IF l.op = "refresh"
                              THEN [revoked EXCEPT ![l.arg] = "refresh"] ELSE revoked
           ELSE /\ Return(p, l.op, l.arg, 0, NewInternalError("Failed to create token"))
                /\ UNCHANGED <<issued, revoked>>
  /\ UNCHANGED <<now, TokenExpiry, generated, dbUp>>

\* TokenRepository.ValidateToken up to the lookup by hash, for a request that
\* has reached the service
ValidateTokenLookup(p, op, tokenStr) ==
  /\ UNCHANGED <<rlVars, hdrVars, reaperVars>>
  /\ LET r == GetByTokenHash(HashToken(tokenStr))
     IN IF r.err.Code # "OK"
        THEN Return(p, op, tokenStr, 0, NewUnauthenticatedError("Invalid or expired token"))
        ELSE /\ pc' = [pc EXCEPT ![p] = "validate_check"]
             /\ loc' = [loc EXCEPT ![p] = [Idle EXCEPT !.op = op, !.arg = tokenStr,
                                                        !.token = Fetched(r.token)]]
             /\ lastRet' = NoRet
  /\ UNCHANGED <<now, TokenExpiry, tokens, generated, dbUp, issued, revoked>>

\* ValidateToken called by a request that is at the service
ValidateTokenGet(p, op, tokenStr) ==
  /\ pc[p] = "idle"
  /\ ValidateTokenLookup(p, op, tokenStr)

\* AuthMiddleware.Authenticate -> AuthService.ValidateToken
Authenticate(p, tokenStr) == ValidateTokenGet(p, "validate", tokenStr)

\* AuthService.RefreshToken: validate the current token
RefreshToken(p, tokenStr) == ValidateTokenGet(p, "refresh", tokenStr)

\* TokenRepository.ValidateToken from the expiry check on
ValidateTokenCheck(p) ==
  /\ UNCHANGED <<rlVars, hdrVars, reaperVars>>
  /\ pc[p] = "validate_check"
  /\ LET l == loc[p]
     IN IF IsExpired(l.token)
        THEN /\ tokens' = Delete(HashToken(l.arg)).table
             /\ Return(p, l.op, l.arg, 0, NewUnauthenticatedError("Token expired"))
        ELSE /\ tokens' = UpdateLastUsed(l.token.TokenID).table
             /\ IF l.op = "refresh"
                THEN /\ pc' = [pc EXCEPT ![p] = "refresh_delete"]
                     /\ loc' = [loc EXCEPT ![p] = [Idle EXCEPT !.op = l.op, !.arg = l.arg,
                                                                !.userID = l.token.UserID]]
                     /\ lastRet' = NoRet
                ELSE Return(p, l.op, l.arg, l.token.UserID, Nil)
  /\ UNCHANGED <<now, TokenExpiry, generated, dbUp, issued, revoked>>

\* RefreshToken without the deletion of the old token
RefreshTokenKeepsOld(p) ==
  /\ UNCHANGED <<rlVars, hdrVars, reaperVars>>
  /\ pc[p] = "refresh_delete"
  /\ tokens' = tokens
  /\ CreateForUserBegin(p, "refresh", loc[p].arg, loc[p].userID)
  /\ revoked' = [revoked EXCEPT ![loc[p].arg] =
                   IF @ = "none" THEN "refreshing" ELSE @]
  /\ UNCHANGED <<now, TokenExpiry, dbUp, issued>>

\* AuthService.RefreshToken: delete the old token (an error is logged and
\* ignored), then start CreateForUser for the resolved user
RefreshTokenDelete(p) ==
  /\ UNCHANGED <<rlVars, hdrVars, reaperVars>>
  /\ pc[p] = "refresh_delete"
  /\ tokens' = Delete(HashToken(loc[p].arg)).table
  /\ CreateForUserBegin(p, "refresh", loc[p].arg, loc[p].userID)
  /\ revoked' = [revoked EXCEPT ![loc[p].arg] =
                   IF @ = "none" THEN "refreshing" ELSE @]
  /\ UNCHANGED <<now, TokenExpiry, dbUp, issued>>

\* Logout that deletes by the raw secret, which is the hash of no row
LogoutByRawSecret(p, tokenStr) ==
  /\ UNCHANGED <<rlVars, hdrVars, reaperVars>>
  /\ pc[p] = "idle"
  /\ tokens' = tokens
  /\ Return(p, "logout", tokenStr, 0, Nil)
  /\ revoked' = IF Issued(tokenStr)
                THEN [revoked EXCEPT ![tokenStr] = "logout"] ELSE revoked
  /\ UNCHANGED <<now, TokenExpiry, generated, dbUp, issued>>

\* Logout that returns every error of Delete, NOT_FOUND included
LogoutNotFoundIsError(p, tokenStr) ==
  /\ UNCHANGED <<rlVars, hdrVars, reaperVars>>
  /\ pc[p] = "idle"
  /\ LET r == Delete(HashToken(tokenStr))
     IN /\ tokens' = r.table
        /\ IF r.err.Code = "OK"
           THEN /\ Return(p, "logout", tokenStr, 0, Nil)
                /\ revoked' = IF Issued(tokenStr)
                              THEN [revoked EXCEPT ![tokenStr] = "logout"] ELSE revoked
           ELSE /\ Return(p, "logout", tokenStr, 0, r.err)
                /\ UNCHANGED revoked
  /\ UNCHANGED <<now, TokenExpiry, generated, dbUp, issued>>

\* AuthService.Logout: a token that is not found is not an error
Logout(p, tokenStr) ==
  /\ UNCHANGED <<rlVars, hdrVars, reaperVars>>
  /\ pc[p] = "idle"
  /\ LET r == Delete(HashToken(tokenStr))
     IN /\ tokens' = r.table
        /\ IF r.err.Code \in {"OK", "NOT_FOUND"}
           THEN /\ Return(p, "logout", tokenStr, 0, Nil)
                /\ revoked' = IF Issued(tokenStr)
                              THEN [revoked EXCEPT ![tokenStr] = "logout"] ELSE revoked
           ELSE /\ Return(p, "logout", tokenStr, 0, r.err)
                /\ UNCHANGED revoked
  /\ UNCHANGED <<now, TokenExpiry, generated, dbUp, issued>>

\* AuthService.LogoutAll
LogoutAll(p, userID) ==
  /\ UNCHANGED <<rlVars, hdrVars, reaperVars>>
  /\ pc[p] = "idle"
  /\ LET r == DeleteUserTokens(userID)
     IN /\ tokens' = r.table
        /\ IF r.err.Code = "OK"
           THEN /\ Return(p, "logoutAll", userID, r.count, Nil)
                /\ revoked' = [x \in DOMAIN revoked |->
                                 IF issued[x].subject = userID THEN "logoutAll"
                                 ELSE revoked[x]]
           ELSE /\ Return(p, "logoutAll", userID, 0, r.err)
                /\ UNCHANGED revoked
  /\ UNCHANGED <<now, TokenExpiry, generated, dbUp, issued>>

\* AuthService.CleanupExpiredTokens, run by the Reaper on its tick
CleanupExpiredTokens ==
  /\ UNCHANGED <<rlVars, hdrVars, reaperVars>>
  /\ LET r == CleanupExpired
     IN /\ tokens' = r.table
        /\ lastRet' = [op |-> "sweep", arg |-> 0, val |-> r.count, err |-> r.err]
  /\ UNCHANGED <<now, TokenExpiry, generated, dbUp, pc, loc, issued, revoked>>

\* the wall clock advances
Tick ==
  /\ UNCHANGED <<rlVars, hdrVars, reaperVars>>
  /\ now < MaxTime
  /\ now' = now + 1
  /\ lastRet' = NoRet
  /\ UNCHANGED <<TokenExpiry, tokens, generated, dbUp, pc, loc, issued, revoked>>

\* the store becomes unreachable / reachable again
StoreDown ==
  /\ UNCHANGED <<rlVars, hdrVars, reaperVars>>
  /\ dbUp
  /\ dbUp' = FALSE
  /\ lastRet' = NoRet
  /\ UNCHANGED <<now, TokenExpiry, tokens, generated, pc, loc, issued, revoked>>

StoreUp ==
  /\ UNCHANGED <<rlVars, hdrVars, reaperVars>>
  /\ ~dbUp
  /\ dbUp' = TRUE
  /\ lastRet' = NoRet
  /\ UNCHANGED <<now, TokenExpiry, tokens, generated, pc, loc, issued, revoked>>

\* AuthService.Login when crypto/rand produces a value it has produced
\* before: CreateForUser goes on with a secret that is not fresh
LoginRepeat(p, username, tokenStr) ==
  /\ UNCHANGED <<rlVars, hdrVars, reaperVars>>
  /\ pc[p] = "idle"
  /\ dbUp
  /\ tokenStr <= generated
  /\ pc' = [pc EXCEPT ![p] = "create_insert"]
  /\ loc' = [loc EXCEPT ![p] = [op |-> "login", arg |-> username, userID |-> username,
                                token |-> NilToken, tokenStr |-> tokenStr,
                                expiresAt |-> now + TokenExpiry]]
  /\ lastRet' = NoRet
  /\ UNCHANGED <<now, TokenExpiry, tokens, generated, dbUp, issued, revoked>>

Next ==
  \/ \E p \in Procs, u \in Subjects : Login(p, u)
  \/ \E p \in Procs : CreateForUser(p)
  \/ \E p \in Procs, x \in Secrets : Authenticate(p, x)
  \/ \E p \in Procs, x \in Secrets : RefreshToken(p, x)
  \/ \E p \in Procs : ValidateTokenCheck(p)
  \/ \E p \in Procs : RefreshTokenDelete(p)
  \/ \E p \in Procs, x \in Secrets : Logout(p, x)
  \/ \E p \in Procs, u \in Subjects : LogoutAll(p, u)
  \/ CleanupExpiredTokens
  \/ Tick

Spec == Init /\ [][Next]_vars

NextRepeat ==
  \/ \E p \in Procs, u \in Subjects : Login(p, u)
  \/ \E p \in Procs, u \in Subjects, x \in Secrets : LoginRepeat(p, u, x)
  \/ \E p \in Procs : CreateForUser(p)
  \/ \E p \in Procs, x \in Secrets : Logout(p, x)
  \/ Tick

\* issue and revoke without the assumption that every secret is fresh
SpecRepeat == Init /\ [][NextRepeat]_vars

NextFaulty == Next \/ StoreDown \/ StoreUp

SpecFaulty == Init /\ [][NextFaulty]_vars

\* the secret of a session that exists when the observation starts: a value
\* GenerateRandomToken returned earlier, distinct from those it returns later
Earlier == MaxSecrets + 1

\* the state after one Login of a subject at instant 0
InitSession ==
  /\ InitLimiter(MaxLimit, MaxWindow)
  /\ now = 0
  /\ TokenExpiry \in 1..MaxTTL
  /\ \E u \in Subjects :
       /\ tokens = [h \in {HashToken(Earlier)} |->
                      [TokenID |-> Earlier, UserID |-> u, TokenHash |-> h,
                       CreatedAt |-> 0, ExpiresAt |-> TokenExpiry, LastUsed |-> 0]]
       /\ issued = [x \in Secrets \cup {Earlier} |->
                      IF x = Earlier
                      THEN [subject |-> u, from |-> 0, expiresAt |-> TokenExpiry]
                      ELSE NotIssued]
  /\ generated = 0
  /\ dbUp = TRUE
  /\ pc = [p \in Procs |-> "idle"]
  /\ loc = [p \in Procs |-> Idle]
  /\ lastRet = NoRet
  /\ revoked = [x \in Secrets \cup {Earlier} |-> "none"]
  /\ InitQuiet

NextSession ==
  \/ \E p \in Procs, x \in Secrets \cup {Earlier} : RefreshToken(p, x)
  \/ \E p \in Procs, x \in Secrets \cup {Earlier} : Authenticate(p, x)
  \/ \E p \in Procs : ValidateTokenCheck(p)
  \/ \E p \in Procs : RefreshTokenDelete(p)
  \/ \E p \in Procs : CreateForUser(p)
  \/ Tick

\* refreshes and validations of one existing session and of its successors
SpecSession == InitSession /\ [][NextSession]_vars

\* ----------------------------------------------------------- rate limiter
\* ValidTimes with now.Sub(t) <= rl.window
ValidTimesInclusive(times, n) == SelectSeq(times, LAMBDA t : n - t <= window)

\* the timestamps of a list that are still inside the window at instant n:
\* now.Sub(t) < rl.window, and time.Since(t) < rl.window in cleanup
ValidTimes(times, n) == SelectSeq(times, LAMBDA t : n - t < window)

\* the list the limiter holds for ip once "Initialize if needed" has run
TimesOf(table, ip) == IF ip \in DOMAIN table THEN table[ip] ELSE <<>>

\* the admission decision of Limit for ip at its instant n: the negation of
\* len(validTimes) >= rl.limit
Admits(table, ip, n) == Len(ValidTimes(TimesOf(table, ip), n)) < limit

\* RateLimiter.Limit up to time.Now(): the request has its ip and its now,
\* and waits for rl.mutex
LimitEnter(p, ip) ==
  /\ rlpc[p] = "idle"
  /\ rlpc' = [rlpc EXCEPT ![p] = "lock"]
  /\ rlloc' = [rlloc EXCEPT ![p] = [ip |-> ip, now |-> now]]
  /\ lastLimit' = NoDecision
  /\ UNCHANGED <<limit, window, requests, admitted>>
  /\ UNCHANGED <<tokVars, hdrVars, reaperVars>>

\* Limit that rebuilds the table with the entry of its own ip only
LimitDropsOtherKeys(p) ==
  /\ rlpc[p] = "lock"
  /\ LET ip == rlloc[p].ip
         n == rlloc[p].now
         times == TimesOf(requests, ip)
         validTimes == ValidTimes(times, n)
     IN IF ~Admits(requests, ip, n)
        THEN /\ requests' = [k \in {ip} |-> times]
             /\ lastLimit' = [ip |-> ip, admit |-> FALSE]
             /\ UNCHANGED admitted
        ELSE /\ requests' = [k \in {ip} |-> Append(validTimes, n)]
             /\ lastLimit' = [ip |-> ip, admit |-> TRUE]
             /\ admitted' = [admitted EXCEPT ![ip][n] = @ + 1]
  /\ rlpc' = [rlpc EXCEPT ![p] = "idle"]
  /\ rlloc' = [rlloc EXCEPT ![p] = NoRequest]
  /\ UNCHANGED <<limit, window>>
  /\ UNCHANGED <<tokVars, hdrVars, reaperVars>>

\* Limit that records the timestamp of a rejected request as well
LimitRecordsRejected(p) ==
  /\ rlpc[p] = "lock"
  /\ LET ip == rlloc[p].ip
         n == rlloc[p].now
         times == TimesOf(requests, ip)
         validTimes == ValidTimes(times, n)
     IN IF ~Admits(requests, ip, n)
        THEN /\ requests' = [k \in DOMAIN requests \cup {ip} |->
                               IF k = ip THEN Append(validTimes, n) ELSE requests[k]]
             /\ lastLimit' = [ip |-> ip, admit |-> FALSE]
             /\ UNCHANGED admitted
        ELSE /\ requests' = [k \in DOMAIN requests \cup {ip} |->
                               IF k = ip THEN Append(validTimes, n) ELSE requests[k]]
             /\ lastLimit' = [ip |-> ip, admit |-> TRUE]
             /\ admitted' = [admitted EXCEPT ![ip][n] = @ + 1]
  /\ rlpc' = [rlpc EXCEPT ![p] = "idle"]
  /\ rlloc' = [rlloc EXCEPT ![p] = NoRequest]
  /\ UNCHANGED <<limit, window>>
  /\ UNCHANGED <<tokVars, hdrVars, reaperVars>>

\* RateLimiter.Limit from rl.mutex.Lock() to rl.mutex.Unlock(): the table
\* and the decision
LimitDecision(p) ==
  /\ rlpc[p] = "lock"
  /\ LET ip == rlloc[p].ip
         n == rlloc[p].now
         times == TimesOf(requests, ip)
         validTimes == ValidTimes(times, n)
     IN IF ~Admits(requests, ip, n)
        THEN /\ requests' = [k \in DOMAIN requests \cup {ip} |->
                               IF k = ip THEN times ELSE requests[k]]
             /\ lastLimit' = [ip |-> ip, admit |-> FALSE]
             /\ UNCHANGED admitted
        ELSE /\ requests' = [k \in DOMAIN requests \cup {ip} |->
                               IF k = ip THEN Append(validTimes, n) ELSE requests[k]]
             /\ lastLimit' = [ip |-> ip, admit |-> TRUE]
             /\ admitted' = [admitted EXCEPT ![ip][n] = @ + 1]
  /\ rlpc' = [rlpc EXCEPT ![p] = "idle"]
  /\ rlloc' = [rlloc EXCEPT ![p] = NoRequest]
  /\ UNCHANGED <<limit, window>>
  /\ UNCHANGED <<hdrVars, reaperVars>>

\* RateLimiter.Limit of a limiter taken alone: what next(c) does is left out
Limit(p) ==
  /\ LimitDecision(p)
  /\ UNCHANGED tokVars

\* cleanup that prunes the lists and leaves the emptied keys in the table
cleanupKeepsEmptyKeys ==
  /\ requests' = [ip \in DOMAIN requests |-> ValidTimes(requests[ip], now)]
  /\ lastLimit' = NoDecision
  /\ UNCHANGED <<limit, window, rlpc, rlloc, admitted>>
  /\ UNCHANGED <<tokVars, hdrVars, reaperVars>>

\* RateLimiter.cleanup: one tick of its ticker, under rl.mutex
cleanup ==
  /\ LET kept == {ip \in DOMAIN requests : Len(ValidTimes(requests[ip], now)) # 0}
     IN requests' = [ip \in kept |-> ValidTimes(requests[ip], now)]
  /\ lastLimit' = NoDecision
  /\ UNCHANGED <<limit, window, rlpc, rlloc, admitted>>
  /\ UNCHANGED <<tokVars, hdrVars, reaperVars>>

\* the wall clock advances while the limiter runs
Elapse ==
  /\ now < MaxInstant
  /\ now' = now + 1
  /\ lastLimit' = NoDecision
  /\ UNCHANGED <<limit, window, requests, rlpc, rlloc, admitted>>
  /\ UNCHANGED <<TokenExpiry, tokens, generated, dbUp, pc, loc, lastRet, issued, revoked>>
  /\ UNCHANGED <<hdrVars, reaperVars>>

InitRL ==
  /\ \E l \in 1..MaxLimit, w \in 1..MaxWindow : InitLimiter(l, w)
  /\ now = 0
  /\ TokenExpiry = 1
  /\ tokens = [h \in {} |-> NoToken]
  /\ generated = 0
  /\ dbUp = TRUE
  /\ pc = [p \in Procs |-> "idle"]
  /\ loc = [p \in Procs |-> Idle]
  /\ lastRet = NoRet
  /\ issued = [x \in Secrets |-> NotIssued]
  /\ revoked = [x \in Secrets |-> "none"]
  /\ InitQuiet

NextRL ==
  \/ \E p \in Procs, ip \in Keys : LimitEnter(p, ip)
  \/ \E p \in Procs : Limit(p)
  \/ cleanup
  \/ Elapse

SpecRL == InitRL /\ [][NextRL]_vars

\* ------------------------------------------- a request through the chain
\* e.Use(generalRateLimiter.Limit()) wraps every route: a request is first in
\* Limit, and only `return next(c)` hands it to the route's middleware and
\* handler. pc[p] = "next" is a request that Limit has passed on.

\* a new request of connection p arrives and Limit reads its ip and its now
Inbound(p, ip) ==
  /\ pc[p] = "idle"
  /\ LimitEnter(p, ip)

\* Limit that passes the request on whatever it decided
LimitNextAlways(p) ==
  /\ LimitDecision(p)
  /\ pc' = [pc EXCEPT ![p] = "next"]
  /\ UNCHANGED <<now, TokenExpiry, tokens, generated, dbUp, loc, lastRet, issued, revoked>>

\* Limit in the chain: 429 and return when the limit is reached, otherwise
\* record the request and return next(c)
LimitNext(p) ==
  /\ LimitDecision(p)
  /\ pc' = [pc EXCEPT ![p] = IF Admits(requests, rlloc[p].ip, rlloc[p].now)
                             THEN "next" ELSE "idle"]
  /\ UNCHANGED <<now, TokenExpiry, tokens, generated, dbUp, loc, lastRet, issued, revoked>>

\* next(c) is POST /auth/login
LoginNext(p, username) ==
  /\ pc[p] = "next"
  /\ AuthServiceLogin(p, username)

\* next(c) is AuthMiddleware.Authenticate of a protected route
AuthenticateNext(p, tokenStr) ==
  /\ pc[p] = "next"
  /\ ValidateTokenLookup(p, "validate", tokenStr)

InitChain ==
  /\ \E w \in 1..MaxWindow : InitLimiter(1, w)
  /\ now = 0
  /\ TokenExpiry = 1
  /\ tokens = [h \in {} |-> NoToken]
  /\ generated = 0
  /\ dbUp = TRUE
  /\ pc = [p \in Procs |-> "idle"]
  /\ loc = [p \in Procs |-> Idle]
  /\ lastRet = NoRet
  /\ issued = [x \in Secrets |-> NotIssued]
  /\ revoked = [x \in Secrets |-> "none"]
  /\ InitQuiet

NextChain ==
  \/ \E p \in Procs, ip \in Keys : Inbound(p, ip)
  \/ \E p \in Procs : LimitNext(p)
  \/ \E p \in Procs, u \in Subjects : LoginNext(p, u)
  \/ \E p \in Procs, x \in Secrets : AuthenticateNext(p, x)
  \/ \E p \in Procs : CreateForUser(p)
  \/ \E p \in Procs : ValidateTokenCheck(p)
  \/ Tick

SpecChain == InitChain /\ [][NextChain]_vars

\* ------------------------------------------------------------- the Reaper
\* the contexts ScheduleTokenCleanup can be given: context.Background(), as
\* NewHandler does, or the cancellable context of main
Contexts == {"Background", "WithCancel"}

\* <-ctx.Done() is ready: context.Background() is never done
Done(ctx) == ctx = "WithCancel" /\ shutdown

\* time.NewTicker: the ticker delivers a tick into its one-slot channel
TickerFires ==
  /\ ~reaper.stopped
  /\ ~reaper.tick
  /\ reaper' = [reaper EXCEPT !.tick = TRUE]
  /\ lastRet' = NoRet
  /\ UNCHANGED <<now, TokenExpiry, tokens, generated, dbUp, pc, loc, issued, revoked>>
  /\ UNCHANGED <<rlVars, hdrVars, shutdown, cleanups>>

\* the loop with an error of CleanupExpiredTokens returned out of the goroutine
ScheduleTokenCleanupSweepFatal ==
  /\ reaper.pc = "select"
  /\ reaper.tick
  /\ LET r == CleanupExpired
     IN /\ tokens' = r.table
        /\ lastRet' = [op |-> "sweep", arg |-> 0, val |-> r.count, err |-> r.err]
        /\ reaper' = IF r.err # Nil
                     THEN [reaper EXCEPT !.tick = FALSE, !.pc = "exited",
                                         !.failures = IF @ < MaxFailures THEN @ + 1 ELSE @]
                     ELSE [reaper EXCEPT !.tick = FALSE, !.failures = 0]
  /\ UNCHANGED <<now, TokenExpiry, generated, dbUp, pc, loc, issued, revoked>>
  /\ UNCHANGED <<rlVars, hdrVars, shutdown, cleanups>>

\* ScheduleTokenCleanup, case <-ticker.C: CleanupExpiredTokens is called, an
\* error is logged, and the loop goes back to its select. failures counts the
\* consecutive sweeps that returned an error.
ScheduleTokenCleanupSweep ==
  /\ reaper.pc = "select"
  /\ reaper.tick
  /\ LET r == CleanupExpired
     IN /\ tokens' = r.table
        /\ lastRet' = [op |-> "sweep", arg |-> 0, val |-> r.count, err |-> r.err]
        /\ reaper' = IF r.err # Nil
                     THEN [reaper EXCEPT !.tick = FALSE,
                                         !.failures = IF @ < MaxFailures THEN @ + 1 ELSE @]
                     ELSE [reaper EXCEPT !.tick = FALSE, !.failures = 0]
  /\ UNCHANGED <<now, TokenExpiry, generated, dbUp, pc, loc, issued, revoked>>
  /\ UNCHANGED <<rlVars, hdrVars, shutdown, cleanups>>

\* ScheduleTokenCleanup, case <-ctx.Done(): ticker.Stop() and return
ScheduleTokenCleanupDone ==
  /\ reaper.pc = "select"
  /\ Done(reaper.ctx)
  /\ reaper' = [reaper EXCEPT !.pc = "exited", !.stopped = TRUE]
  /\ lastRet' = NoRet
  /\ UNCHANGED <<now, TokenExpiry, tokens, generated, dbUp, pc, loc, issued, revoked>>
  /\ UNCHANGED <<rlVars, hdrVars, shutdown, cleanups>>

\* main: cancel() of the context made by context.WithCancel
Cancel ==
  /\ ~shutdown
  /\ shutdown' = TRUE
  /\ lastRet' = NoRet
  /\ UNCHANGED <<now, TokenExpiry, tokens, generated, dbUp, pc, loc, issued, revoked>>
  /\ UNCHANGED <<rlVars, hdrVars, reaper, cleanups>>

InitReaper ==
  /\ InitLimiter(MaxLimit, MaxWindow)
  /\ now = 0
  /\ TokenExpiry = 1
  /\ tokens = [h \in {} |-> NoToken]
  /\ generated = 0
  /\ dbUp = TRUE
  /\ pc = [p \in Procs |-> "idle"]
  /\ loc = [p \in Procs |-> Idle]
  /\ lastRet = NoRet
  /\ issued = [x \in Secrets |-> NotIssued]
  /\ revoked = [x \in Secrets |-> "none"]
  /\ authz = NoHeader
  /\ \E ctx \in Contexts : reaper = Started(ctx)
  /\ shutdown = FALSE
  /\ cleanups = 2

NextReaper ==
  \/ TickerFires
  \/ ScheduleTokenCleanupSweep
  \/ ScheduleTokenCleanupDone
  \/ Cancel
  \/ \E p \in Procs, u \in Subjects : Login(p, u)
  \/ \E p \in Procs : CreateForUser(p)
  \/ Tick
  \/ StoreDown
  \/ StoreUp

SpecReaper == InitReaper /\ [][NextReaper]_vars

\* time passes, so a running ticker delivers its next tick; the goroutine is
\* scheduled, so a select with a ready case proceeds and a case that stays
\* ready is eventually chosen
SpecReaperFair ==
  /\ SpecReaper
  /\ WF_vars(TickerFires)
  /\ WF_vars(ScheduleTokenCleanupDone)
  /\ WF_vars(ScheduleTokenCleanupSweep)

\* ------------------------------------------------------ background tasks
\* NewRateLimiter, called twice by SetupMiddleware and once by every call of
\* AuthLimit: go limiter.cleanup(). cleanup ranges over the channel of a
\* ticker that nothing stops, and reads no context, so no step ends it.
NewRateLimiter ==
  /\ cleanups < MaxLimiters
  /\ cleanups' = cleanups + 1
  /\ lastRet' = NoRet
  /\ UNCHANGED <<now, TokenExpiry, tokens, generated, dbUp, pc, loc, issued, revoked>>
  /\ UNCHANGED <<rlVars, hdrVars, reaper, shutdown>>

\* main after NewHandler has started the Reaper and before SetupMiddleware
InitTasks ==
  /\ InitLimiter(MaxLimit, MaxWindow)
  /\ now = 0
  /\ TokenExpiry = 1
  /\ tokens = [h \in {} |-> NoToken]
  /\ generated = 0
  /\ dbUp = TRUE
  /\ pc = [p \in Procs |-> "idle"]
  /\ loc = [p \in Procs |-> Idle]
  /\ lastRet = NoRet
  /\ issued = [x \in Secrets |-> NotIssued]
  /\ revoked = [x \in Secrets |-> "none"]
  /\ authz = NoHeader
  /\ \E ctx \in Contexts : reaper = Started(ctx)
  /\ shutdown = FALSE
  /\ cleanups = 0

NextTasks ==
  \/ NewRateLimiter
  \/ TickerFires
  \/ ScheduleTokenCleanupSweep
  \/ ScheduleTokenCleanupDone
  \/ Cancel
  \/ StoreDown
  \/ StoreUp

SpecTasks == InitTasks /\ [][NextTasks]_vars

\* fairness as in SpecReaperFair
SpecTasksFair ==
  /\ SpecTasks
  /\ WF_vars(TickerFires)
  /\ WF_vars(ScheduleTokenCleanupDone)
  /\ WF_vars(ScheduleTokenCleanupSweep)

\* ------------------------------------------------- Authorization header
\* a header value is a sequence of characters; the secrets "x" and "y" stand
\* for two opaque 64-character secrets
Payloads == {<<"x">>, <<"y">>}

\* "bearer" in every mix of upper and lower case
BearerWords ==
  {<<c1, c2, c3, c4, c5, c6>> :
     c1 \in {"B", "b"}, c2 \in {"E", "e"}, c3 \in {"A", "a"},
     c4 \in {"R", "r"}, c5 \in {"E", "e"}, c6 \in {"R", "r"}}

\* the header values a client sends: none, a bare secret, and a prefix
\* followed by a secret or by nothing
Headers ==
  {<<>>} \cup Payloads
    \cup {w \o <<" ">> \o s : w \in BearerWords, s \in Payloads \cup {<<>>}}

Endpoints == {"protected", "refresh", "logout"}

\* strings.ToLower
ToLowerChar(c) ==
  IF c = "B" THEN "b" ELSE IF c = "E" THEN "e" ELSE IF c = "A" THEN "a"
  ELSE IF c = "R" THEN "r" ELSE c

ToLower(str) == [i \in 1..Len(str) |-> ToLowerChar(str[i])]

\* strings.HasPrefix
HasPrefix(str, prefix) ==
  Len(str) >= Len(prefix) /\ SubSeq(str, 1, Len(prefix)) = prefix

\* AuthMiddleware.Authenticate: the token taken from a non-empty header
AuthenticateToken(authHeader) ==
  IF HasPrefix(ToLower(authHeader), <<"b", "e", "a", "r", "e", "r", " ">>)
  THEN SubSeq(authHeader, 8, Len(authHeader))
  ELSE authHeader

\* AuthHandler.RefreshToken and AuthHandler.Logout: the token taken from a
\* non-empty header
HandlerToken(authHeader) ==
  IF Len(authHeader) > 7 /\ SubSeq(authHeader, 1, 7) = <<"B", "e", "a", "r", "e", "r", " ">>
  THEN SubSeq(authHeader, 8, Len(authHeader))
  ELSE authHeader

\* a request with Authorization header h arrives at endpoint e
Receive(e, h) ==
  /\ authz.stage # "received"
  /\ authz' = [endpoint |-> e, header |-> h, token |-> <<>>, stage |-> "received"]
  /\ UNCHANGED <<tokVars, rlVars, reaperVars>>

\* the endpoint reads the header: 401 for an empty one, otherwise the
\* service is called with the token
ReadHeader(e, token) ==
  /\ authz.stage = "received"
  /\ authz.endpoint = e
  /\ authz' = IF authz.header = <<>>
              THEN [authz EXCEPT !.stage = "missing"]
              ELSE [authz EXCEPT !.token = token, !.stage = "called"]
  /\ UNCHANGED <<tokVars, rlVars, reaperVars>>

\* AuthMiddleware.Authenticate up to authService.ValidateToken
AuthenticateHeader == ReadHeader("protected", AuthenticateToken(authz.header))

\* AuthHandler.RefreshToken up to authService.RefreshToken
RefreshTokenHeader == ReadHeader("refresh", HandlerToken(authz.header))

\* AuthHandler.Logout up to authService.Logout
LogoutHeader == ReadHeader("logout", HandlerToken(authz.header))

InitHeader == Init /\ TokenExpiry = 1

NextHeader ==
  \/ \E e \in Endpoints, h \in Headers : Receive(e, h)
  \/ AuthenticateHeader
  \/ RefreshTokenHeader
  \/ LogoutHeader

SpecHeader == InitHeader /\ [][NextHeader]_vars

\* ------------------------------------------------------------- responses
\* what the caller sees: the HTTP status and the body's error and code
\* c.JSON(status, response.NewErrorResponse(err, code))
NewErrorResponse(status, err, code) == [Status |-> status, Error |-> err, Code |-> code]

\* echo.NewHTTPError(status, message), rendered by echo's default error
\* handler: the body carries the message and no code
NewHTTPError(status, message) == [Status |-> status, Error |-> message, Code |-> ""]

\* c.JSON(http.StatusOK, response.NewSuccessResponse(data)), and next(c)
NewSuccessResponse == [Status |-> 200, Error |-> "", Code |-> ""]

\* AuthMiddleware.Authenticate: every error of ValidateToken is the same 401
AuthenticateResponse(err) ==
  IF err # Nil THEN NewHTTPError(401, "Invalid or expired token")
  ELSE NewSuccessResponse

\* AuthHandler.RefreshToken and AuthHandler.Logout: the AppError of the
\* service is passed through to the caller
HandlerResponse(err) ==
  IF err # Nil THEN NewErrorResponse(err.Status, err.Message, err.Code)
  ELSE NewSuccessResponse

\* the response to the call that returned ret
Response(ret) ==
  IF ret.op = "validate" THEN AuthenticateResponse(ret.err) ELSE HandlerResponse(ret.err)

\* ------------------------------------------------------------ properties
\* the call returned the Unauthenticated error and no subject
Unauthenticated(ret) == ret.err.Code = "UNAUTHENTICATED" /\ ret.val = 0

Stored(x) == HashToken(x) \in DOMAIN tokens

\* C1: a Validate that returns while the secret is issued, unrevoked and
\* the clock has not passed its expiresAt returns the subject it was issued for.
C1_IssueThenValidate ==
  lastRet.op = "validate" =>
    LET x == lastRet.arg
    IN (Issued(x) /\ revoked[x] = "none" /\ now <= issued[x].expiresAt)
         => (lastRet.err = Nil /\ lastRet.val = issued[x].subject)

\* C1 at the last instant of the token's life: now = expiresAt
C1_Witness ==
  /\ lastRet.op = "validate"
  /\ Issued(lastRet.arg)
  /\ revoked[lastRet.arg] = "none"
  /\ now = issued[lastRet.arg].expiresAt
  /\ lastRet.val = issued[lastRet.arg].subject

\* C2: a Validate that returns after the clock has passed the token's
\* expiresAt returns Unauthenticated and leaves no row under the token's hash.
C2_ExpiredSelfCleaning ==
  lastRet.op = "validate" =>
    LET x == lastRet.arg
    IN (Issued(x) /\ now > issued[x].expiresAt)
         => (Unauthenticated(lastRet) /\ ~Stored(x))

\* C2: Validate itself found the expired row and removed it
C2_Witness ==
  /\ lastRet.op = "validate"
  /\ Issued(lastRet.arg)
  /\ now > issued[lastRet.arg].expiresAt
  /\ revoked[lastRet.arg] = "none"
  /\ lastRet.err = NewUnauthenticatedError("Token expired")
  /\ ~Stored(lastRet.arg)

\* C3: a Validate of a secret that RefreshToken returned resolves to the
\* subject of the secret it replaced, and a Validate of the replaced secret
\* that starts after RefreshToken has returned is Unauthenticated.
C3_RefreshReplaces ==
  [][ /\ lastRet'.op = "validate" =>
          LET x == lastRet'.arg
          IN (Issued(x) /\ issued[x].from # 0 /\ revoked[x] = "none"
                /\ now <= issued[x].expiresAt)
               => (lastRet'.err = Nil /\ lastRet'.val = issued[issued[x].from].subject)
      /\ \A p \in Procs, x \in Secrets :
           (Authenticate(p, x) /\ revoked[x] = "refresh") => Unauthenticated(lastRet')
    ]_vars

\* C3: the new secret validates after the old one was replaced
C3_Witness ==
  /\ lastRet.op = "validate"
  /\ lastRet.err = Nil
  /\ issued[lastRet.arg].from # 0
  /\ revoked[issued[lastRet.arg].from] = "refresh"
  /\ lastRet.val = issued[issued[lastRet.arg].from].subject

\* C3: the old secret is presented after the refresh returned
C3_WitnessOld ==
  /\ lastRet.op = "validate"
  /\ revoked[lastRet.arg] = "refresh"
  /\ Unauthenticated(lastRet)

\* C4: once RefreshToken has returned a new secret, no later lookup finds
\* the row of the old one, whether or not its deletion succeeded.
C4_OldSecretDeadAfterRefresh ==
  [][ \A p \in Procs, x \in Secrets :
        (Authenticate(p, x) /\ revoked[x] = "refresh") => pc'[p] # "validate_check"
    ]_vars

\* C5: LogoutAll(s) removes every row of s and changes no row of another
\* subject, and a Validate that starts after it returned, of a secret issued
\* for s before it, is Unauthenticated.
C5_RevokeAll ==
  [][ /\ \A p \in Procs, u \in Subjects :
           LogoutAll(p, u) =>
             /\ \A h \in DOMAIN tokens' : tokens'[h].UserID # u
             /\ \A h \in DOMAIN tokens :
                  tokens[h].UserID # u => (h \in DOMAIN tokens' /\ tokens'[h] = tokens[h])
      /\ \A p \in Procs, x \in Secrets :
           (Authenticate(p, x) /\ revoked[x] = "logoutAll") => Unauthenticated(lastRet')
    ]_vars

\* C5: a secret of s is refused after LogoutAll(s) while another subject's
\* token is still stored
C5_Witness ==
  /\ lastRet.op = "validate"
  /\ revoked[lastRet.arg] = "logoutAll"
  /\ Unauthenticated(lastRet)
  /\ \E h \in DOMAIN tokens : tokens[h].UserID # issued[lastRet.arg].subject

\* C6: Logout of an issued secret leaves no row under its hash, and a
\* Validate of it that starts after Logout returned is Unauthenticated.
C6_RevokeThenValidate ==
  [][ /\ \A p \in Procs, x \in Secrets :
           (Logout(p, x) /\ Issued(x)) => HashToken(x) \notin DOMAIN tokens'
      /\ \A p \in Procs, x \in Secrets :
           (Authenticate(p, x) /\ revoked[x] = "logout") => Unauthenticated(lastRet')
    ]_vars

\* C6: the revoked secret is presented while it would still be live
C6_Witness ==
  /\ lastRet.op = "validate"
  /\ revoked[lastRet.arg] = "logout"
  /\ now <= issued[lastRet.arg].expiresAt
  /\ Unauthenticated(lastRet)

\* C7: Logout of a secret that has no row returns nil and leaves the table
\* as it was.
C7_RevokeIdempotent ==
  [][ \A p \in Procs, x \in Secrets :
        (Logout(p, x) /\ ~Stored(x)) => (lastRet'.err = Nil /\ tokens' = tokens)
    ]_vars

\* C7: Logout has returned nil for a secret that was never issued and has no row
C7_Witness ==
  /\ lastRet.op = "logout"
  /\ lastRet.err = Nil
  /\ ~Issued(lastRet.arg)
  /\ ~Stored(lastRet.arg)

\* how many admitted requests of ip carry a timestamp inside the window
\* that trails instant n, (n - window, n]
RECURSIVE AdmittedSince(_, _, _)
AdmittedSince(ip, n, t) ==
  IF t > MaxInstant THEN 0
  ELSE (IF n - window < t /\ t <= n THEN admitted[ip][t] ELSE 0)
         + AdmittedSince(ip, n, t + 1)

AdmittedInWindow(ip, n) == AdmittedSince(ip, n, 0)

\* request p takes its admission decision in this step
Decides(p) == rlpc[p] = "lock" /\ rlpc'[p] = "idle"

\* C8: a request that is decided at the instant it read the clock is
\* admitted exactly when fewer than limit admitted requests of its key carry
\* a timestamp inside the trailing window: the first limit requests pass,
\* the next is rejected, and once the window has elapsed requests pass again.
C8_LimitThenRejectThenAdmit ==
  [][ \A p \in Procs :
        (Decides(p) /\ rlloc[p].now = now) =>
          (lastLimit'.admit <=> AdmittedInWindow(rlloc[p].ip, now) < limit)
    ]_vars

\* C8 in the documented configuration: limit 3, window 1; three requests were
\* admitted one window ago and the key is admitted again now
C8_Witness ==
  /\ limit = 3
  /\ window = 1
  /\ lastLimit.ip \in Keys
  /\ lastLimit.admit
  /\ now >= window
  /\ admitted[lastLimit.ip][now - window] = limit
  /\ admitted[lastLimit.ip][now] = 1

\* C8: the request after the first limit ones is rejected
C8_WitnessRejected ==
  /\ limit = 3
  /\ lastLimit.ip \in Keys
  /\ ~lastLimit.admit
  /\ admitted[lastLimit.ip][now] = limit

\* C9: for every key and every instant, at most limit admitted requests
\* carry a timestamp inside the window that trails that instant.
C9_AtMostLimitPerWindow ==
  \A ip \in Keys, n \in 0..MaxInstant : AdmittedInWindow(ip, n) <= limit

\* C10: a request for one key leaves the list of every other key, and every
\* decision the limiter would take for another key, as they were.
C10_KeysIndependent ==
  [][ \A p \in Procs :
        Decides(p) =>
          \A k \in Keys \ {rlloc[p].ip} :
            /\ (k \in DOMAIN requests') <=> (k \in DOMAIN requests)
            /\ TimesOf(requests', k) = TimesOf(requests, k)
            /\ \A n \in 0..MaxInstant : Admits(requests', k, n) <=> Admits(requests, k, n)
    ]_vars

\* C10: one key is decided while another key holds a full window
C10_Witness ==
  /\ lastLimit.ip \in Keys
  /\ lastLimit.admit
  /\ \E k \in Keys \ {lastLimit.ip} :
       /\ k \in DOMAIN requests
       /\ Len(requests[k]) = limit
       /\ ~Admits(requests, k, now)

\* the response of operation op to a secret that has no row: the lookup by
\* hash finds nothing
UnknownResponse(op) ==
  Response([op |-> op, arg |-> 0, val |-> 0,
            err |-> NewUnauthenticatedError("Invalid or expired token")])

\* a secret that is revoked, expired or unknown
Revoked(x) == revoked[x] \in {"refresh", "logout", "logoutAll"}

Dead(x) == ~Issued(x) \/ Revoked(x) \/ now > issued[x].expiresAt

\* C11: whenever a protected request or a refresh is refused for a secret
\* that is revoked, expired or unknown, the caller sees the response that an
\* unknown secret gets from the same operation: same status, code and message.
C11_SameRefusal ==
  (lastRet.op \in {"validate", "refresh"} /\ Dead(lastRet.arg) /\ lastRet.err # Nil)
    => Response(lastRet) = UnknownResponse(lastRet.op)

\* C12: a Refresh that reaches the deletion of its old row after a
\* concurrent Logout has removed that row returns Unauthenticated and
\* generates no new secret.
C12_RefreshLosesToRevoke ==
  [][ \A p \in Procs :
        ( /\ pc[p] = "refresh_delete"
          /\ pc'[p] # "refresh_delete"
          /\ revoked[loc[p].arg] = "logout"
          /\ ~Stored(loc[p].arg) )
        => (Unauthenticated(lastRet') /\ generated' = generated)
    ]_vars

\* the header value without a leading "Bearer " in any case
Trimmed(h) ==
  IF \E w \in BearerWords : HasPrefix(h, w \o <<" ">>)
  THEN SubSeq(h, 8, Len(h))
  ELSE h

\* C13: on every endpoint, the token the service is called with is the
\* header value without its "Bearer " prefix, whatever the case of the
\* prefix, and the whole value when there is no prefix.
C13_BearerAnyCase ==
  authz.stage = "called" => authz.token = Trimmed(authz.header)

\* C14: once the context of main has been cancelled, the Reaper eventually
\* leaves its loop with its ticker stopped, however it was started.
C14_ReaperStopsOnCancel ==
  shutdown ~> (reaper.pc = "exited" /\ reaper.stopped)

\* the step in which the Reaper receives a tick and sweeps
Sweeps == reaper.pc = "select" /\ reaper.tick /\ ~reaper'.tick

\* C15: a sweep that returns an error leaves the Reaper in its loop with its
\* ticker running, whatever the number of failures before it, and the Reaper
\* leaves its loop only when its context is done.
C15_FailedSweepRetried ==
  [][ /\ (Sweeps /\ lastRet'.err # Nil)
          => (reaper'.pc = "select" /\ ~reaper'.stopped /\ reaper'.failures > 0)
      /\ (reaper.pc = "select" /\ reaper'.pc = "exited") => Done(reaper.ctx)
    ]_vars

\* C15: the sweep has just failed for the MaxFailures-th time in a row, each
\* on its own tick, and the Reaper is still in its loop
C15_Witness ==
  /\ lastRet.op = "sweep"
  /\ lastRet.err # Nil
  /\ reaper.failures = MaxFailures
  /\ reaper.pc = "select"
  /\ ~reaper.stopped

\* C16: the insert of CreateForUser either adds one row for its own secret
\* and subject and leaves every other row as it was, or, when the hash is
\* already stored, fails and leaves the table as it was; and every row is
\* stored under its own hash, so no two rows share one.
C16_DistinctRows ==
  [][ /\ \A p \in Procs :
           CreateForUser(p) =>
             LET x == loc[p].tokenStr
             IN IF Stored(x)
                THEN tokens' = tokens /\ lastRet'.err # Nil /\ lastRet'.val = 0
                ELSE /\ lastRet'.err = Nil
                     /\ lastRet'.val = x
                     /\ DOMAIN tokens' = DOMAIN tokens \cup {HashToken(x)}
                     /\ tokens'[HashToken(x)].UserID = loc[p].userID
                     /\ \A h \in DOMAIN tokens : tokens'[h] = tokens[h]
      /\ \A h \in DOMAIN tokens' : tokens'[h].TokenHash = h
    ]_vars

\* C16: two logins of one subject hold two rows, and a third Issue whose
\* secret collides with one of them has just been refused
C16_Witness ==
  /\ lastRet.op = "login"
  /\ lastRet.err # Nil
  /\ Cardinality(DOMAIN tokens) = 2
  /\ \A h \in DOMAIN tokens : tokens[h].UserID = lastRet.arg

\* C17: a Validate of a stored, unrevoked token returns the subject exactly
\* when now < expiresAt, and Unauthenticated when now >= expiresAt, the
\* instant now = expiresAt included.
C17_LiveIffBeforeExpiry ==
  (lastRet.op = "validate" /\ Issued(lastRet.arg) /\ revoked[lastRet.arg] = "none")
    => IF now < issued[lastRet.arg].expiresAt
       THEN lastRet.err = Nil /\ lastRet.val = issued[lastRet.arg].subject
       ELSE Unauthenticated(lastRet)

\* C18: a request that is rejected leaves the limiter's table, and with it
\* the list of its own key and every later decision for that key, as they were.
C18_RejectedNotRecorded ==
  [][ \A p \in Procs :
        (Decides(p) /\ ~lastLimit'.admit) =>
          /\ rlloc[p].ip \in DOMAIN requests
          /\ requests' = requests
          /\ admitted' = admitted
          /\ \A n \in 0..MaxInstant :
               Admits(requests', rlloc[p].ip, n) <=> Admits(requests, rlloc[p].ip, n)
    ]_vars

\* C18: a key that is full is rejected in a two-instant window, and its list
\* still holds exactly limit timestamps
C18_Witness ==
  /\ lastLimit.ip \in Keys
  /\ ~lastLimit.admit
  /\ window = 2
  /\ lastLimit.ip \in DOMAIN requests
  /\ Len(requests[lastLimit.ip]) = limit
  /\ requests[lastLimit.ip][1] < now

\* a list of timestamps in non-decreasing order
NonDecreasing(times) == \A i \in 1..Len(times) - 1 : times[i] <= times[i + 1]

\* C19: at every admission decision, the list held for the key is in
\* non-decreasing order and every timestamp that is counted lies in
\* [now - window, now] for the now of the deciding request.
C19_RateWindowInvariant ==
  [][ \A p \in Procs :
        Decides(p) =>
          LET times == TimesOf(requests, rlloc[p].ip)
              n == rlloc[p].now
              validTimes == ValidTimes(times, n)
          IN /\ NonDecreasing(times)
             /\ \A i \in 1..Len(validTimes) :
                  n - window <= validTimes[i] /\ validTimes[i] <= n
    ]_vars

\* the timestamps of a list that are not older than n - window
NotOlder(times, n) == SelectSeq(times, LAMBDA t : t >= n - window)

\* C20: a request at instant now drops exactly the timestamps older than
\* now - window: a timestamp equal to now - window is kept and counted, and
\* so is one equal to now.
C20_WindowBoundary ==
  [][ \A p \in Procs :
        Decides(p) =>
          LET ip == rlloc[p].ip
              n == rlloc[p].now
              kept == NotOlder(TimesOf(requests, ip), n)
          IN /\ lastLimit'.admit <=> Len(kept) < limit
             /\ lastLimit'.admit => requests'[ip] = Append(kept, n)
    ]_vars

\* the rows whose expires_at is before now
Overdue == {h \in DOMAIN tokens : tokens[h].ExpiresAt < now}

\* C21: a sweep removes exactly the rows with expiresAt < now and reports
\* their number, leaves every other row and every request in flight as they
\* were, and a second sweep at the same instant would remove nothing.
C21_SweepExact ==
  [][ CleanupExpiredTokens =>
        /\ DOMAIN tokens' = DOMAIN tokens \ Overdue
        /\ \A h \in DOMAIN tokens' : tokens'[h] = tokens[h]
        /\ lastRet'.val = Cardinality(Overdue)
        /\ pc' = pc /\ loc' = loc
        /\ Overdue' = {}
        /\ CleanupExpired'.count = 0
    ]_vars

\* C21: a sweep has removed an expired token while a Validate of a token
\* that is at its last live instant is between its lookup and its check
C21_Witness ==
  /\ lastRet.op = "sweep"
  /\ lastRet.val >= 1
  /\ \E p \in Procs :
       /\ pc[p] = "validate_check"
       /\ loc[p].op = "validate"
       /\ Stored(loc[p].arg)
       /\ loc[p].token.ExpiresAt = now

\* C22: after shutdown has been signalled, the Reaper and every limiter
\* cleanup goroutine eventually terminate.
C22_TasksStopOnShutdown ==
  shutdown ~> (reaper.pc = "exited" /\ cleanups = 0)

\* C23: every stored token row has expiresAt > createdAt, whatever positive
\* TTL the token was created with.
C23_ExpiresAfterCreated ==
  \A h \in DOMAIN tokens : tokens[h].ExpiresAt > tokens[h].CreatedAt

\* the steps in which request p has its credential examined: the lookup of
\* ValidateToken or its expiry check
Examines(p) ==
  \/ pc[p] # "validate_check" /\ pc'[p] = "validate_check"
  \/ pc[p] # "idle" /\ lastRet'.op = "validate" /\ pc'[p] = "idle"

\* C24: the limiter decides before the credential is examined: a request
\* reaches the service only through an admitting decision, its credential is
\* examined only after that, and a rejected request returns without any
\* call of the service and without any change to a token row.
C24_LimiterBeforeAuth ==
  [][ \A p \in Procs :
        /\ (pc[p] # "next" /\ pc'[p] = "next") => (Decides(p) /\ lastLimit'.admit)
        /\ Examines(p) => rlpc[p] = "idle" /\ pc[p] \in {"next", "validate_check"}
        /\ (Decides(p) /\ ~lastLimit'.admit) =>
             /\ tokens' = tokens
             /\ pc'[p] = "idle" /\ loc' = loc /\ lastRet' = lastRet
    ]_vars

\* C24: a request has been rejected by the limiter and has returned while a
\* token row is stored
C24_Witness ==
  /\ lastLimit.ip # 0
  /\ ~lastLimit.admit
  /\ tokens # << >>
  /\ \A p \in Procs : pc[p] = "idle"

C26_RefreshNotAtomic ==
  [][ \A p \in Procs :
        /\ (pc[p] = "refresh_delete" /\ pc'[p] = "create_insert" /\ dbUp) =>
             HashToken(loc[p].arg) \notin DOMAIN tokens'
        /\ ( /\ pc[p] = "create_insert" /\ loc[p].op = "refresh"
             /\ ~Stored(loc[p].arg)
             /\ pc'[p] = "idle" /\ lastRet'.err.Code # "OK" ) =>
             /\ lastRet'.err = NewInternalError("Failed to create token")
             /\ lastRet'.val = 0
             /\ tokens' = tokens
             /\ ~Stored(loc[p].arg)'
    ]_vars

\* C26: a refresh of a secret that is still before its expiry has returned
\* an Internal error, and its subject has no row left in the store
C26_Witness ==
  /\ lastRet.op = "refresh"
  /\ lastRet.err.Code = "INTERNAL"
  /\ Issued(lastRet.arg)
  /\ issued[lastRet.arg].expiresAt > now
  /\ revoked[lastRet.arg] = "refreshing"
  /\ ~Stored(lastRet.arg)
  /\ \A h \in DOMAIN tokens : tokens[h].UserID # issued[lastRet.arg].subject

\* C27: once LogoutAll of a subject has returned, a refresh of one of the
\* subject's secrets that was validated before the rows were deleted stores
\* no token for the subject.
C27_LogoutAllEndsRefreshes ==
  [][ \A p \in Procs :
        ( /\ pc[p] = "create_insert" /\ loc[p].op = "refresh"
          /\ revoked[loc[p].arg] = "logoutAll"
          /\ pc'[p] = "idle" ) =>
          \A h \in DOMAIN tokens' \ DOMAIN tokens : tokens'[h].UserID # loc[p].userID
    ]_vars

\* the secrets that refreshes of x have returned
Successors(x) == {y \in DOMAIN issued : issued[y].from = x}

\* C28: the refreshes of one secret return at most one new secret, however
\* they are interleaved.
C28_OneSuccessor ==
  \A x \in DOMAIN issued : Cardinality(Successors(x)) <= 1

\* C29: a sweep of the limiter table changes the outcome of no request: the
\* decision a request in flight gets right after the sweep is the decision
\* it would have got without it.
C29_CleanupUnobservable ==
  [][ cleanup =>
        \A p \in Procs :
          rlpc[p] = "lock" =>
            (Admits(requests', rlloc[p].ip, rlloc[p].now)
               <=> Admits(requests, rlloc[p].ip, rlloc[p].now))
    ]_vars

\* every row stored under a hash other than that of secret x is still stored
\* and has not changed
OthersKept(x) ==
  \A h \in DOMAIN tokens \ {HashToken(x)} : h \in DOMAIN tokens' /\ tokens'[h] = tokens[h]

\* C30: Login, Validate, Refresh and Logout applied to a secret delete and
\* change no stored row whose hash is not the hash of that secret; the row a
\* Login or Refresh adds replaces none.
C30_OtherSessionsUntouched ==
  [][ \A p \in Procs :
        /\ \A u \in Subjects : Login(p, u) => tokens' = tokens
        /\ \A x \in Secrets :
             (Authenticate(p, x) \/ RefreshToken(p, x) \/ Logout(p, x)) => OthersKept(x)
        /\ (ValidateTokenCheck(p) \/ RefreshTokenDelete(p)) => OthersKept(loc[p].arg)
        /\ CreateForUser(p) => OthersKept(loc[p].tokenStr)
    ]_vars

\* C30: a Logout has ended one session of a subject and another session of
\* the same subject is still stored
C30_Witness ==
  /\ lastRet.op = "logout"
  /\ lastRet.err.Code = "OK"
  /\ revoked[lastRet.arg] = "logout"
  /\ ~Stored(lastRet.arg)
  /\ \E h \in DOMAIN tokens : tokens[h].UserID = issued[lastRet.arg].subject

====
